---- MODULE Spec2Model ----
(***************************************************************************)
(* Model of the electricity price API: the in-memory DataService           *)
(* (src/services/dataService.ts) and the price endpoint that drives it     *)
(* (src/routes/priceRoutes.ts), the AuthService with its users and tokens  *)
(* (src/services/authService.ts) and the token gate (src/middleware/       *)
(* auth.ts).  The clock counts seconds; a token is the record of what      *)
(* jwt.verify finds in it.                                                 *)
(*                                                                         *)
(* Text is a sequence of characters; "Infinity" is the eight-letter word   *)
(* taken as one unit.  A JavaScript value is a record [t, s, n, d]: a      *)
(* string ("str", characters s), a finite number ("num", the fraction      *)
(* n / d in lowest terms), Infinity ("inf"), NaN ("nan") or null/undefined *)
(* ("null").  Numbers are exact fractions: floating-point rounding is not  *)
(* modelled.  The alphabet has no sign and no decimal point.               *)
(***************************************************************************)
EXTENDS Integers, Sequences, FiniteSets, TLC

\* ------------------------------------------------------------ bounds ----
MaxRows == 2
MaxReq == 2
MaxPairs == 2
MaxTicks == 2

\* ------------------------------------------------------------ values ----
Str(s) == [t |-> "str", s |-> s, n |-> 0, d |-> 1]
Num(n) == [t |-> "num", s |-> <<>>, n |-> n, d |-> 1]
Inf == [t |-> "inf", s |-> <<>>, n |-> 0, d |-> 1]
\* a value that is no string and no number: an array or an object
Arr == [t |-> "arr", s |-> <<>>, n |-> 0, d |-> 1]
NaN == [t |-> "nan", s |-> <<>>, n |-> 0, d |-> 1]
Null == [t |-> "null", s |-> <<>>, n |-> 0, d |-> 1]

RECURSIVE Gcd(_, _)
Gcd(a, b) == IF b = 0 THEN a ELSE Gcd(b, a % b)

\* total / count for a finite integer total and a positive count
Frac(n, d) ==
  LET g == Gcd(n, d) IN [t |-> "num", s |-> <<>>, n |-> n \div g, d |-> d \div g]

Digits == {"0", "1", "2", "3", "4", "5", "6", "7", "8", "9"}
DigitVal(c) ==
  CASE c = "0" -> 0 [] c = "1" -> 1 [] c = "2" -> 2 [] c = "3" -> 3
    [] c = "4" -> 4 [] c = "5" -> 5 [] c = "6" -> 6 [] c = "7" -> 7
    [] c = "8" -> 8 [] c = "9" -> 9

RECURSIVE DecVal(_)
DecVal(s) ==
  IF s = <<>> THEN 0
  ELSE 10 * DecVal(SubSeq(s, 1, Len(s) - 1)) + DigitVal(s[Len(s)])

RECURSIVE TrimStart(_)
TrimStart(s) ==
  IF s # <<>> /\ s[1] = " " THEN TrimStart(Tail(s)) ELSE s

RECURSIVE TrimEnd(_)
TrimEnd(s) ==
  IF s # <<>> /\ s[Len(s)] = " " THEN TrimEnd(SubSeq(s, 1, Len(s) - 1)) ELSE s

Trim(s) == TrimEnd(TrimStart(s))

RECURSIVE DigitPrefix(_)
DigitPrefix(s) ==
  IF s # <<>> /\ s[1] \in Digits THEN <<s[1]>> \o DigitPrefix(Tail(s)) ELSE <<>>

\* parseFloat on text: leading blanks skipped, then the longest numeric prefix
ParseFloatStr(s) ==
  LET u == TrimStart(s)
      p == DigitPrefix(u)
  IN IF u # <<>> /\ u[1] = "Infinity" THEN Inf
     ELSE IF p = <<>> THEN NaN
     ELSE Num(DecVal(p))

\* Number(text): the whole trimmed text must be a numeric literal; "" is 0
ToNumber(s) ==
  LET u == Trim(s)
  IN IF u = <<>> THEN Num(0)
     ELSE IF u = <<"Infinity">> THEN Inf
     ELSE IF DigitPrefix(u) = u THEN Num(DecVal(u))
     ELSE NaN

\* parseFloat(v): a number is converted to text and parsed back
parseFloat(v) ==
  IF v.t = "str" THEN ParseFloatStr(v.s)
  ELSE IF v.t \in {"num", "inf"} THEN v
  ELSE NaN

isNaN(v) == v.t = "nan"

\* !v
Falsy(v) ==
  \/ v.t = "null"
  \/ v.t = "nan"
  \/ v.t = "str" /\ v.s = <<>>
  \/ v.t = "num" /\ v.n = 0

\* a + b on non-negative numbers
Add(a, b) ==
  IF a.t = "nan" \/ b.t = "nan" THEN NaN
  ELSE IF a.t = "inf" \/ b.t = "inf" THEN Inf
  ELSE Frac(a.n * b.d + b.n * a.d, a.d * b.d)

\* total / count, count a positive integer
Div(total, count) ==
  IF total.t = "num" THEN Frac(total.n, total.d * count) ELSE total

\* ---------------------------------------------------------- csv-parse ----
\* csv-parse __isFloat: (value - parseFloat(value) + 1) >= 0; false as soon as
\* either side is NaN, and Infinity - Infinity is NaN
isFloat(s) ==
  LET a == ToNumber(s)
      b == ParseFloatStr(s)
  IN a.t = "num" /\ b.t = "num" /\ a.n - b.n + 1 >= 0

\* cast: true turns a field that is wholly a number into that number
Cast(s) == IF isFloat(s) THEN ParseFloatStr(s) ELSE Str(s)

Columns == <<"state", "price", "timestamp">>

\* parse(csvData, {columns: true, cast: true}): a row whose length differs
\* from the header's raises a CsvError
ParseCsv(rows) ==
  IF \E i \in DOMAIN rows : Len(rows[i]) # Len(Columns)
  THEN [threw |-> TRUE, records |-> <<>>]
  ELSE [threw |-> FALSE,
        records |-> [i \in DOMAIN rows |->
                       [state |-> Cast(rows[i][1]),
                        price |-> Cast(rows[i][2]),
                        timestamp |-> Cast(rows[i][3])]]]

\* ------------------------------------------------------- DataService ----
InSeq(seq, v) == \E i \in DOMAIN seq : seq[i] = v

\* variant: an array that is pushed to, duplicates and all
SetAddPush(set, v) == Append(set, v)

\* Set.add followed by Array.from: insertion order, no duplicates
SetAdd(set, v) == IF InSeq(set, v) THEN set ELSE Append(set, v)

\* the condition that makes the map callback throw
InvalidRecord(record) ==
  \/ isNaN(parseFloat(record.price))
  \/ Falsy(record.state)
  \/ Falsy(record.timestamp)

PriceRecord(record) ==
  [state |-> record.state,
   price |-> parseFloat(record.price),
   timestamp |-> record.timestamp]

\* records.map(callback): stops at the first record the callback rejects
RECURSIVE MapFrom(_, _, _, _)
MapFrom(records, i, out, set) ==
  IF i > Len(records) THEN [threw |-> FALSE, out |-> out, states |-> set]
  ELSE IF InvalidRecord(records[i]) THEN [threw |-> TRUE, out |-> out, states |-> set]
  ELSE MapFrom(records, i + 1, Append(out, PriceRecord(records[i])),
               SetAdd(set, records[i].state))

MapRecords(records) == MapFrom(records, 1, <<>>, <<>>)

\* variant: the records are stored one by one while they are mapped
CommitDataPartial(old, m) == m.out

\* variant: the records of a load are added to the ones already held
CommitDataAppend(old, m) == IF m.threw THEN old ELSE old \o m.out

\* this.data = records.map(...): not assigned when map throws
CommitData(old, m) == IF m.threw THEN old ELSE m.out

\* variant: the index is not replaced together with the records
CommitStatesStale(old, m) == old

\* variant: the index keeps the regions of earlier loads
CommitStatesKeep(old, m) == IF m.threw THEN old ELSE old \o m.states

\* this.states = Array.from(states): not reached when map throws
CommitStates(old, m) == IF m.threw THEN old ELSE m.states

\* the error loadData rejects with, by what made the attempt fail
ErrNone == "none"
ErrNotFound == "Failed to load CSV data: File not found"
ErrParse == "Failed to parse CSV data"
ErrLoad == "Failed to load CSV data"

\* the catch block: code ENOENT, then message 'Invalid data format', then the rest
ClassifyError(code, invalidFormat) ==
  IF code = "ENOENT" THEN ErrNotFound
  ELSE IF invalidFormat THEN ErrParse
  ELSE ErrLoad

\* the assignments that end the try block, m being what records.map gave
Assign(oldData, oldStates, m) ==
  [data |-> CommitData(oldData, m),
   states |-> CommitStates(oldStates, m),
   error |-> IF m.threw THEN ClassifyError("none", TRUE) ELSE ErrNone]

\* the try block from the parse on, p being what parse gave
MapAndAssign(oldData, oldStates, p) ==
  IF p.threw
  THEN [data |-> oldData, states |-> oldStates,
        error |-> ClassifyError("CSV_RECORD_INCONSISTENT_COLUMNS", FALSE)]
  ELSE Assign(oldData, oldStates, MapRecords(p.records))

\* the synchronous part of loadData after readFile settles with result `file`
LoadData(oldData, oldStates, file) ==
  IF file.code # "ok"
  THEN [data |-> oldData, states |-> oldStates,
        error |-> ClassifyError(file.code, FALSE)]
  ELSE MapAndAssign(oldData, oldStates, ParseCsv(file.rows))

getAllData(d) == d

\* variant: the argument is trimmed before it is compared
getStateDataTrim(d, state) ==
  IF Falsy(state) THEN <<>>
  ELSE SelectSeq(d, LAMBDA record : record.state = Str(Trim(state.s)))

getStateData(d, state) ==
  IF Falsy(state) THEN <<>>
  ELSE SelectSeq(d, LAMBDA record : record.state = state)

RECURSIVE Reduce(_, _, _)
Reduce(seq, i, sum) ==
  IF i > Len(seq) THEN sum ELSE Reduce(seq, i + 1, Add(sum, seq[i].price))

\* variant: the total is divided by the number of all records
getMeanPriceOverAll(d, state) ==
  LET stateData == getStateData(d, state)
  IN IF Len(stateData) = 0 THEN Null
     ELSE Div(Reduce(stateData, 1, Num(0)), Len(d))

getMeanPrice(d, state) ==
  LET stateData == getStateData(d, state)
  IN IF Len(stateData) = 0 THEN Null
     ELSE Div(Reduce(stateData, 1, Num(0)), Len(stateData))

getAvailableStates(s) == s

\* ------------------------------------------------------- AuthService ----
\* the position of the first sep in s, 0 when there is none
RECURSIVE IndexOf(_, _, _)
IndexOf(s, sep, i) ==
  IF i > Len(s) THEN 0
  ELSE IF s[i] = sep THEN i
  ELSE IndexOf(s, sep, i + 1)

\* s.split(sep): the pieces between the separators, at least one piece
RECURSIVE Split(_, _)
Split(s, sep) ==
  IF IndexOf(s, sep, 1) = 0 THEN <<s>>
  ELSE <<SubSeq(s, 1, IndexOf(s, sep, 1) - 1)>>
         \o Split(SubSeq(s, IndexOf(s, sep, 1) + 1, Len(s)), sep)

\* parts[i] of an array of texts, undefined past its end
At(parts, i) == IF i <= Len(parts) THEN Str(parts[i]) ELSE Null

\* Map.get: undefined for a key that is not there
MapGet(m, k) ==
  IF \E i \in DOMAIN m : m[i].k = k
  THEN m[CHOOSE i \in DOMAIN m : m[i].k = k].v
  ELSE Null

\* variant: an entry that is there is not replaced
MapSetKeepsFirst(m, k, v) ==
  IF \E i \in DOMAIN m : m[i].k = k THEN m ELSE Append(m, [k |-> k, v |-> v])

\* Map.set: replaces the value of a key that is there, else adds the entry
MapSet(m, k, v) ==
  IF \E i \in DOMAIN m : m[i].k = k
  THEN [i \in DOMAIN m |-> IF m[i].k = k THEN [k |-> k, v |-> v] ELSE m[i]]
  ELSE Append(m, [k |-> k, v |-> v])

\* one turn of the loop over userPairs
AddPair(m, pair) ==
  IF ~Falsy(At(Split(Trim(pair), ":"), 1)) /\ ~Falsy(At(Split(Trim(pair), ":"), 2))
  THEN MapSet(m, At(Split(Trim(pair), ":"), 1), At(Split(Trim(pair), ":"), 2))
  ELSE m

\* for (const pair of userPairs) ...
RECURSIVE AddPairs(_, _, _)
AddPairs(m, userPairs, i) ==
  IF i > Len(userPairs) THEN m
  ELSE AddPairs(AddPair(m, userPairs[i]), userPairs, i + 1)

\* the users API_USERNAME and API_PASSWORD give
LegacyUsers(env) ==
  IF ~Falsy(env.API_USERNAME) /\ ~Falsy(env.API_PASSWORD)
  THEN MapSet(<<>>, env.API_USERNAME, env.API_PASSWORD)
  ELSE <<>>

\* variant: the legacy pair is added after the pairs of API_USERS
loadUsersFromEnvBoth(env) ==
  IF ~Falsy(env.API_USERS)
  THEN IF ~Falsy(env.API_USERNAME) /\ ~Falsy(env.API_PASSWORD)
       THEN MapSet(AddPairs(<<>>, Split(env.API_USERS.s, ","), 1),
                   env.API_USERNAME, env.API_PASSWORD)
       ELSE AddPairs(<<>>, Split(env.API_USERS.s, ","), 1)
  ELSE LegacyUsers(env)

\* loadUsersFromEnv: API_USERS when it is set, else the legacy pair
loadUsersFromEnv(env) ==
  IF ~Falsy(env.API_USERS)
  THEN AddPairs(<<>>, Split(env.API_USERS.s, ","), 1)
  ELSE LegacyUsers(env)

ErrSecret == "JWT_SECRET environment variable is required"
ErrNoUsers == "No users found"

\* what the constructor leaves, users being what loadUsersFromEnv filled in
Constructed(env, users) ==
  IF Len(users) = 0
  THEN [error |-> ErrNoUsers, users |-> <<>>, jwtSecret |-> Null]
  ELSE [error |-> ErrNone, users |-> users, jwtSecret |-> env.JWT_SECRET]

\* variant: the users are looked at before the secret
AuthServiceNewUsersFirst(env) ==
  IF Len(loadUsersFromEnv(env)) = 0
  THEN [error |-> ErrNoUsers, users |-> <<>>, jwtSecret |-> Null]
  ELSE IF Falsy(env.JWT_SECRET)
  THEN [error |-> ErrSecret, users |-> <<>>, jwtSecret |-> Null]
  ELSE Constructed(env, loadUsersFromEnv(env))

\* new AuthService(): the error it throws, or the fields of the object
AuthServiceNew(env) ==
  IF Falsy(env.JWT_SECRET)
  THEN [error |-> ErrSecret, users |-> <<>>, jwtSecret |-> Null]
  ELSE Constructed(env, loadUsersFromEnv(env))

\* variant: the arguments are not checked before the lookup
validateCredentialsUnchecked(users, username, password) ==
  MapGet(users, username) = password

\* validateCredentials: the stored password is the one given
validateCredentials(users, username, password) ==
  IF Falsy(username) \/ Falsy(password) THEN FALSE
  ELSE MapGet(users, username) = password

\* ------------------------------------------------------- environment ----
N == <<"N">>
T == <<"t">>

\* rows the loader admits as they stand
GoodRows == {<<N, <<"0">>, T>>, <<N, <<"1">>, T>>, <<<<"n">>, <<"1">>, T>>}

\* rows with one field off: a price that is no number, a price that only
\* starts as a number, no price, an infinite price, no region, no timestamp,
\* a missing column, and a region that is itself a number
OddRows ==
  {<<N, <<"a">>, T>>, <<N, <<"1", "a">>, T>>, <<N, <<>>, T>>,
   <<N, <<"Infinity">>, T>>, <<<<>>, <<"1">>, T>>, <<N, <<"1">>, <<>>>>,
   <<N, <<"1">>>>, <<<<"1">>, <<"1">>, T>>}

RawRows == GoodRows \cup OddRows

\* the sequences over S of length k at most
SeqsUpTo(S, k) == UNION {[1..n -> S] : n \in 0..k}

\* file contents: up to MaxRows rows, at most one of them odd
Contents ==
  {c \in SeqsUpTo(RawRows, MaxRows) :
     Cardinality({i \in DOMAIN c : c[i] \in OddRows}) <= 1}

\* what fs.promises.readFile settles with: the rows of the file, or an error code
FileResults ==
  {[code |-> "ok", rows |-> c] : c \in Contents}
    \cup {[code |-> c, rows |-> <<>>] : c \in {"ENOENT", "EACCES"}}

\* the files the price endpoint is run against
SampleRows == {<<N, <<"1">>, T>>, <<<<"n">>, <<"0">>, T>>, <<N, <<"a">>, T>>}

SampleFiles ==
  {[code |-> "ok", rows |-> c] : c \in SeqsUpTo(SampleRows, MaxRows)}
    \cup {[code |-> "ENOENT", rows |-> <<>>]}

\* req.query.state: absent, text, or an array (the parameter given twice)
QueryParams == {Null, Str(<<>>), Str(<<" ">>), Str(N), Str(<<"n">>), Arr}

\* arguments of a direct call of a query method
RegionArgs == {Str(<<>>), Str(N), Str(<<"n">>), Str(<<"N", " ">>), Str(<<"1">>)}

Requests == 1..MaxReq

\* ------------------------------------------------------------- state ----
VARIABLES
  envCsvPath,   \* process.env.CSV_DATA_PATH is set
  dataService,  \* the module-level DataService of priceRoutes exists
  data,         \* DataService.data
  states,       \* DataService.states
  live,         \* history: the rows of the most recent load that succeeded
  pc,           \* per request: "idle", "loading" (awaiting readFile), "loaded"
  query,        \* per request: req.query.state
  loadErr,      \* per request: what its loadData settled with, and the cause
  out,          \* what the step just taken returned or sent, if anything
  env,          \* process.env: JWT_SECRET, API_USERS, API_USERNAME, API_PASSWORD
  authService,  \* the AuthService of the auth middleware has been constructed
  routeAuthService,  \* the AuthService of authRoutes has been constructed
  users,        \* AuthService.users
  jwtSecret,    \* AuthService.jwtSecret
  now,          \* the clock, Math.floor(Date.now() / 1000)
  ticks,        \* how many times the clock has been seen to advance
  held          \* a token a client keeps

dataVars == <<envCsvPath, dataService, data, states, live, pc, query, loadErr>>
authVars == <<env, authService, routeAuthService, users, jwtSecret, now, ticks, held>>

vars == <<envCsvPath, dataService, data, states, live, pc, query, loadErr, out,
          env, authService, routeAuthService, users, jwtSecret, now, ticks, held>>

NoOut == [kind |-> "none"]
NoErr == [error |-> ErrNone, cause |-> "none"]

Response(q, status, error, meanPrice, recordCount) ==
  [kind |-> "response", state |-> q, status |-> status, error |-> error,
   meanPrice |-> meanPrice, recordCount |-> recordCount]

\* no variable set in the environment
NoEnv ==
  [JWT_SECRET |-> Null, API_USERS |-> Null, API_USERNAME |-> Null, API_PASSWORD |-> Null]

NoPayload == [username |-> Null, iat |-> 0, exp |-> 0]

\* the empty string where a token is expected
NoToken == [form |-> "empty", payload |-> NoPayload, signed |-> NoPayload, key |-> Null]

\* no AuthService yet
AuthIdle ==
  /\ env = NoEnv
  /\ authService = FALSE
  /\ routeAuthService = FALSE
  /\ users = <<>>
  /\ jwtSecret = Null
  /\ now = 0
  /\ ticks = 0
  /\ held = NoToken

Init ==
  /\ envCsvPath \in BOOLEAN
  /\ dataService = FALSE
  /\ data = <<>>
  /\ states = <<>>
  /\ live = <<>>
  /\ pc = [r \in Requests |-> "idle"]
  /\ query = [r \in Requests |-> Null]
  /\ loadErr = [r \in Requests |-> NoErr]
  /\ out = NoOut
  /\ AuthIdle

\* what made a load fail: the readFile error, or the content
Cause(file, error) ==
  IF file.code # "ok" THEN file.code
  ELSE IF error # ErrNone THEN "content" ELSE "none"

\* the parameter check without the trim test
StateParamMissingNoTrim(q) ==
  Falsy(q) \/ q.t # "str"

\* !state || typeof state !== 'string' || state.trim() === ''
StateParamMissing(q) ==
  Falsy(q) \/ q.t # "str" \/ Trim(q.s) = <<>>

\* GET /api/price up to the first await: the parameter check, getDataService
\* (whose constructor throws without a path) and the call of loadData
PriceRequest(r, q) ==
  /\ pc[r] = "idle"
  /\ IF StateParamMissing(q)
     THEN /\ out' = Response(q, 400, "State query parameter is required", Null, 0)
          /\ UNCHANGED <<dataService, pc, query>>
     ELSE IF ~dataService /\ ~envCsvPath
     THEN /\ out' = Response(q, 500, "Internal server error", Null, 0)
          /\ UNCHANGED <<dataService, pc, query>>
     ELSE /\ dataService' = TRUE
          /\ pc' = [pc EXCEPT ![r] = "loading"]
          /\ query' = [query EXCEPT ![r] = q]
          /\ out' = NoOut
  /\ UNCHANGED <<envCsvPath, data, states, live, loadErr>>
  /\ UNCHANGED authVars

\* readFile settles for request r and its loadData runs to the end
LoadSettle(r, file) ==
  /\ pc[r] = "loading"
  /\ \E res \in {LoadData(data, states, file)} :
        /\ data' = res.data
        /\ states' = res.states
        /\ live' = IF res.error = ErrNone THEN file.rows ELSE live
        /\ loadErr' = [loadErr EXCEPT
                         ![r] = [error |-> res.error, cause |-> Cause(file, res.error)]]
  /\ pc' = [pc EXCEPT ![r] = "loaded"]
  /\ out' = NoOut
  /\ UNCHANGED <<envCsvPath, dataService, query>>
  /\ UNCHANGED authVars

\* the handler after the load testing !meanPrice instead of === null
HandlerResumeFalsyMean(r) ==
  /\ pc[r] = "loaded"
  /\ LET meanPrice == getMeanPrice(data, query[r])
         stateData == getStateData(data, query[r])
     IN out' =
          IF loadErr[r].error # ErrNone
          THEN Response(query[r], 500, "Failed to load price data", Null, 0)
          ELSE IF Falsy(meanPrice)
          THEN Response(query[r], 404, "No data found for state", Null, 0)
          ELSE Response(query[r], 200, "", meanPrice, Len(stateData))
  /\ pc' = [pc EXCEPT ![r] = "idle"]
  /\ query' = [query EXCEPT ![r] = Null]
  /\ loadErr' = [loadErr EXCEPT ![r] = NoErr]
  /\ UNCHANGED <<envCsvPath, dataService, data, states, live>>
  /\ UNCHANGED authVars

\* the handler after `await service.loadData()`
HandlerResume(r) ==
  /\ pc[r] = "loaded"
  /\ LET meanPrice == getMeanPrice(data, query[r])
         stateData == getStateData(data, query[r])
     IN out' =
          IF loadErr[r].error # ErrNone
          THEN Response(query[r], 500, "Failed to load price data", Null, 0)
          ELSE IF meanPrice = Null
          THEN Response(query[r], 404, "No data found for state", Null, 0)
          ELSE Response(query[r], 200, "", meanPrice, Len(stateData))
  /\ pc' = [pc EXCEPT ![r] = "idle"]
  /\ query' = [query EXCEPT ![r] = Null]
  /\ loadErr' = [loadErr EXCEPT ![r] = NoErr]
  /\ UNCHANGED <<envCsvPath, dataService, data, states, live>>
  /\ UNCHANGED authVars

Next ==
  \/ \E r \in Requests, q \in QueryParams : PriceRequest(r, q)
  \/ \E r \in Requests, file \in SampleFiles : LoadSettle(r, file)
  \/ \E r \in Requests : HandlerResume(r)

\* the price endpoint under concurrent requests
Spec == Init /\ [][Next]_vars

\* `await dataService.loadData()` by a caller that holds the service
Load(file) ==
  /\ \E res \in {LoadData(data, states, file)} :
        /\ data' = res.data
        /\ states' = res.states
        /\ live' = IF res.error = ErrNone THEN file.rows ELSE live
        /\ out' = [kind |-> "settled", error |-> res.error,
                   cause |-> Cause(file, res.error),
                   same |-> file.code = "ok" /\ file.rows = live]
  /\ UNCHANGED <<envCsvPath, dataService, pc, query, loadErr>>
  /\ UNCHANGED authVars

\* variant: getStateData narrows the records held to the ones it returns
QueryNarrows(state) ==
  /\ out' = [kind |-> "answer", state |-> state,
             all |-> getAllData(data),
             stateData |-> getStateData(data, state),
             meanPrice |-> getMeanPrice(data, state),
             available |-> getAvailableStates(states)]
  /\ data' = getStateData(data, state)
  /\ UNCHANGED <<envCsvPath, dataService, states, live, pc, query, loadErr>>
  /\ UNCHANGED authVars

\* a direct call of the four query methods with argument `state`
Query(state) ==
  /\ out' = [kind |-> "answer", state |-> state,
             all |-> getAllData(data),
             stateData |-> getStateData(data, state),
             meanPrice |-> getMeanPrice(data, state),
             available |-> getAvailableStates(states)]
  /\ UNCHANGED <<envCsvPath, dataService, data, states, live, pc, query, loadErr>>
  /\ UNCHANGED authVars

NextSvc ==
  \/ \E file \in FileResults : Load(file)
  \/ \E state \in RegionArgs : Query(state)

\* one DataService driven by a sequential caller
SpecSvc == Init /\ [][NextSvc]_vars

TypeOK ==
  /\ pc \in [Requests -> {"idle", "loading", "loaded"}]
  /\ Len(data) <= MaxRows

\* ------------------------------------------------------------ claims ----
\* the snapshot a successful load of `rows` produces
SnapshotOf(rows) ==
  LET m == MapRecords(ParseCsv(rows).records)
  IN [data |-> m.out, states |-> m.states]

\* the positions of the records of a region
Matching(d, region) == {i \in DOMAIN d : d[i].state = region}

RECURSIVE SumAt(_, _)
SumAt(d, I) ==
  IF I = {} THEN Num(0)
  ELSE LET i == CHOOSE x \in I : TRUE
       IN Add(d[i].price, SumAt(d, I \ {i}))

\* the arithmetic mean of the prices of a region, Null when it has no record
MeanOf(d, region) ==
  IF Matching(d, region) = {} THEN Null
  ELSE Div(SumAt(d, Matching(d, region)), Cardinality(Matching(d, region)))

\* the records of a region in dataset order
RECURSIVE RecordsOf(_, _)
RecordsOf(d, region) ==
  IF d = <<>> THEN <<>>
  ELSE IF Head(d).state = region THEN <<Head(d)>> \o RecordsOf(Tail(d), region)
  ELSE RecordsOf(Tail(d), region)

\* the regions of the records, each at its first occurrence
RECURSIVE FirstSeenFrom(_, _)
FirstSeenFrom(d, i) ==
  IF i > Len(d) THEN <<>>
  ELSE IF \E j \in 1..(i - 1) : d[j].state = d[i].state THEN FirstSeenFrom(d, i + 1)
  ELSE <<d[i].state>> \o FirstSeenFrom(d, i + 1)

\* C1: a load that fails, whatever made it fail, leaves the records and the
\* region index as they were, so the queries keep answering from the most
\* recent load that succeeded
C1_FailedLoadKeepsSnapshot ==
  [][(out'.kind = "settled" /\ out'.error # ErrNone)
       => (data' = data /\ states' = states /\ live' = live)]_vars

\* a load failed on its content while records of an earlier load were held
C1_Witness ==
  out.kind = "settled" /\ out.error = ErrParse /\ data # <<>>

\* C2: at most one loadData is between its file read and its assignment of
\* the snapshot at any time
C2_AtMostOneLoad ==
  Cardinality({r \in Requests : pc[r] = "loading"}) <= 1

\* C3: the records and the region index always come from one and the same
\* completed load, and the mean price and the record count of a price
\* response are taken from that one snapshot
C3_OneSnapshot ==
  /\ data = SnapshotOf(live).data
  /\ states = SnapshotOf(live).states
  /\ (out.kind = "response" /\ out.status = 200) =>
       /\ out.meanPrice = MeanOf(SnapshotOf(live).data, out.state)
       /\ out.recordCount = Cardinality(Matching(SnapshotOf(live).data, out.state))

\* a price response was sent from loaded records while another request was
\* in the middle of its own load
C3_Witness ==
  /\ out.kind = "response" /\ out.status = 200
  /\ \E r \in Requests : pc[r] = "loading"

\* C4: every region of the index has a record, and every record's region is
\* in the index
C4_IndexMatchesRecords ==
  /\ \A i \in DOMAIN getAvailableStates(states) :
       \E j \in DOMAIN getAllData(data) : data[j].state = states[i]
  /\ \A j \in DOMAIN getAllData(data) :
       \E i \in DOMAIN getAvailableStates(states) : states[i] = data[j].state

\* a load failed while two regions were held
C4_Witness ==
  out.kind = "settled" /\ out.error # ErrNone /\ Len(states) = 2

\* a row as the data model wants it: three fields, a region, a timestamp,
\* and a price that is digits throughout
WellFormedRow(row) ==
  /\ Len(row) = 3
  /\ row[1] # <<>>
  /\ row[3] # <<>>
  /\ row[2] # <<>>
  /\ \A k \in DOMAIN row[2] : row[2][k] \in Digits

\* C5: the rows of a dataset that was admitted are all well formed
C5_OnlyWellFormedAdmitted ==
  \A i \in DOMAIN live : WellFormedRow(live[i])

\* C6: the error of a failed load tells what made it fail: the source was
\* not found, the content was malformed, or another I/O failure
C6_ErrorKinds ==
  out.kind = "settled" =>
    /\ out.error = ErrNotFound <=> out.cause = "ENOENT"
    /\ out.error = ErrParse <=> out.cause = "content"
    /\ out.error = ErrLoad <=> out.cause = "EACCES"

\* C7: getMeanPrice is the mean of the prices of the records of the region,
\* and null exactly when the region has no record
C7_MeanPrice ==
  out.kind = "answer" =>
    /\ out.meanPrice = MeanOf(data, out.state)
    /\ out.meanPrice = Null <=> Matching(data, out.state) = {}

\* the mean of two records of one region, with another region's left out
C7_Witness ==
  out.kind = "answer" /\ out.meanPrice.t = "num" /\ out.meanPrice.d = 2

\* C8: getStateData returns the records whose region is the argument, in
\* dataset order, and nothing for the empty string or an unknown region
C8_StateData ==
  out.kind = "answer" =>
    /\ out.stateData = RecordsOf(data, out.state)
    /\ out.state = Str(<<>>) => out.stateData = <<>>

\* one of two records was returned
C8_Witness ==
  out.kind = "answer" /\ Len(data) = 2 /\ Len(out.stateData) = 1

\* C9: getAvailableStates returns each region of the records once, in the
\* order of first occurrence
C9_AvailableStates ==
  /\ getAvailableStates(states) = FirstSeenFrom(data, 1)
  /\ out.kind = "answer" => out.available = FirstSeenFrom(data, 1)

\* two records of one region were held and the regions were asked for
C9_Witness ==
  out.kind = "answer" /\ Len(data) = 2 /\ Len(out.available) = 1

\* C10: loading again the content of the most recent successful load leaves
\* the records and the index as they are
C10_ReloadSameContent ==
  [][(out'.kind = "settled" /\ out'.error = ErrNone /\ out'.same)
       => (data' = data /\ states' = states)]_vars

\* a dataset with records was loaded a second time
C10_Witness ==
  out.kind = "settled" /\ out.error = ErrNone /\ out.same /\ data # <<>>

\* C11: a call of the query methods changes neither the records nor the
\* region index and starts no load
C11_QueriesReadOnly ==
  [][out'.kind = "answer"
       => (data' = data /\ states' = states /\ live' = live /\ pc' = pc)]_vars

\* the queries were called on a service that holds two records
C11_Witness ==
  out.kind = "answer" /\ Len(data) = 2 /\ Len(out.all) = 2

\* ------------------------------------------------ AuthService: users ----
U == <<"u">>
P == <<"p">>

\* entries of API_USERS: three pairs, a pair without password, without
\* username, without colon, and one with a second colon
PairTexts ==
  {<<"u", ":", "p">>, <<"u", ":", "q">>, <<"v", ":", "p">>, <<"u", ":">>,
   <<":", "p">>, <<"u">>, <<"u", ":", "p", ":", "q">>}

\* items.join(sep)
RECURSIVE Join(_, _)
Join(items, sep) ==
  IF Len(items) = 0 THEN <<>>
  ELSE IF Len(items) = 1 THEN items[1]
  ELSE items[1] \o <<sep>> \o Join(Tail(items), sep)

Configs ==
  [JWT_SECRET : {Null, Str(<<>>), Str(<<"s">>)},
   API_USERS : {Null} \cup {Str(Join(c, ",")) : c \in SeqsUpTo(PairTexts, MaxPairs)},
   API_USERNAME : {Null, Str(<<"w">>), Str(U)},
   API_PASSWORD : {Null, Str(P)}]

UsernameArgs == {Null, Str(<<>>), Str(U), Str(<<"v">>), Str(<<"w">>)}
PasswordArgs ==
  {Null, Str(<<>>), Str(P), Str(<<"q">>), Str(<<"p", " ">>), Str(<<"p", ":", "q">>)}

\* the process starts with some environment
InitAuth ==
  /\ envCsvPath = TRUE
  /\ dataService = FALSE
  /\ data = <<>>
  /\ states = <<>>
  /\ live = <<>>
  /\ pc = [r \in Requests |-> "idle"]
  /\ query = [r \in Requests |-> Null]
  /\ loadErr = [r \in Requests |-> NoErr]
  /\ out = NoOut
  /\ env \in Configs
  /\ authService = FALSE
  /\ routeAuthService = FALSE
  /\ users = <<>>
  /\ jwtSecret = Null
  /\ now = 0
  /\ ticks = 0
  /\ held = NoToken

\* new AuthService(), as getAuthService does while there is none
Construct ==
  /\ ~authService
  /\ \E made \in {AuthServiceNew(env)} :
       /\ authService' = (made.error = ErrNone)
       /\ users' = made.users
       /\ jwtSecret' = made.jwtSecret
       /\ out' = [kind |-> "constructed", error |-> made.error]
  /\ UNCHANGED <<env, routeAuthService, now, ticks, held>>
  /\ UNCHANGED dataVars

\* await authService.validateCredentials(username, password)
Validate(username, password) ==
  /\ authService
  /\ out' = [kind |-> "validated", username |-> username, password |-> password,
             result |-> validateCredentials(users, username, password)]
  /\ UNCHANGED authVars
  /\ UNCHANGED dataVars

NextAuth ==
  \/ Construct
  \/ \E username \in UsernameArgs, password \in PasswordArgs :
       Validate(username, password)

\* one AuthService: its construction and its credential check
SpecAuth == InitAuth /\ [][NextAuth]_vars

\* C12: validateCredentials is true for the pairs of the credential set and
\* false for every other input, an empty or missing argument included
C12_ValidateCredentials ==
  out.kind = "validated" =>
    (out.result <=>
       \E i \in DOMAIN users :
         users[i].k = out.username /\ users[i].v = out.password)

\* a pair of a set of two users was accepted
C12_Witness ==
  out.kind = "validated" /\ out.result /\ Len(users) = 2

\* C13: without a secret the construction fails with the missing-secret
\* error whatever users are configured; with a secret it fails with the
\* no-users error exactly when no user is resolved, and succeeds otherwise
C13_Construction ==
  out.kind = "constructed" =>
    IF Falsy(env.JWT_SECRET)
    THEN out.error = ErrSecret /\ ~authService
    ELSE /\ out.error = ErrNoUsers <=> Len(loadUsersFromEnv(env)) = 0
         /\ out.error = ErrNone <=> Len(loadUsersFromEnv(env)) > 0
         /\ authService <=> out.error = ErrNone
         /\ authService => users = loadUsersFromEnv(env)

\* the secret was missing while a legacy user was configured
C13_Witness ==
  out.kind = "constructed" /\ out.error = ErrSecret /\ Len(LegacyUsers(env)) = 1

\* the users the entries of API_USERS give
MultiUsers(env0) ==
  IF env0.API_USERS.t = "str"
  THEN AddPairs(<<>>, Split(env0.API_USERS.s, ","), 1)
  ELSE <<>>

\* C14: when API_USERS gives no user and the legacy username and password
\* are set, the credential set is the legacy pair and construction succeeds;
\* the no-users error is raised only when neither form gives a user
C14_LegacyFallback ==
  (out.kind = "constructed" /\ ~Falsy(env.JWT_SECRET)) =>
    /\ (Len(MultiUsers(env)) = 0 /\ Len(LegacyUsers(env)) = 1)
         => (out.error = ErrNone /\ users = LegacyUsers(env))
    /\ out.error = ErrNoUsers
         => (Len(MultiUsers(env)) = 0 /\ Len(LegacyUsers(env)) = 0)

\* C15: when API_USERS gives at least one user, the credential set is what
\* API_USERS gives, and the legacy pair validates only if it is listed there
C15_MultiUserPriority ==
  (authService /\ Len(MultiUsers(env)) > 0) =>
    /\ users = MultiUsers(env)
    /\ (/\ out.kind = "validated"
        /\ out.username = env.API_USERNAME
        /\ out.password = env.API_PASSWORD)
         => (out.result <=>
               \E i \in DOMAIN MultiUsers(env) :
                 MultiUsers(env)[i] = [k |-> env.API_USERNAME, v |-> env.API_PASSWORD])

\* the legacy pair was refused by a service whose users come from API_USERS
C15_Witness ==
  /\ out.kind = "validated" /\ ~out.result
  /\ Len(MultiUsers(env)) > 0 /\ Len(LegacyUsers(env)) = 1
  /\ out.username = env.API_USERNAME /\ out.password = env.API_PASSWORD

\* the username of an entry: the text before its first colon
ItemUser(item) ==
  IF IndexOf(Trim(item), ":", 1) = 0 THEN Trim(item)
  ELSE SubSeq(Trim(item), 1, IndexOf(Trim(item), ":", 1) - 1)

\* the text of an entry after its first colon
ItemRest(item) ==
  IF IndexOf(Trim(item), ":", 1) = 0 THEN <<>>
  ELSE SubSeq(Trim(item), IndexOf(Trim(item), ":", 1) + 1, Len(Trim(item)))

\* the password of an entry: the text between its first colon and the next
ItemPass(item) ==
  IF IndexOf(ItemRest(item), ":", 1) = 0 THEN ItemRest(item)
  ELSE SubSeq(ItemRest(item), 1, IndexOf(ItemRest(item), ":", 1) - 1)

\* an entry with both sides
Complete(item) == ItemUser(item) # <<>> /\ ItemPass(item) # <<>>

\* the entries of API_USERS
Items == IF env.API_USERS.t = "str" THEN Split(env.API_USERS.s, ",") ELSE <<>>

\* C16: the users resolved from API_USERS are the usernames of the entries
\* that have both sides, each with the password of its last such entry
C16_SkipAndLastWins ==
  (authService /\ ~Falsy(env.API_USERS)) =>
    /\ \A i \in DOMAIN users :
         \E j \in DOMAIN Items :
           Complete(Items[j]) /\ users[i].k = Str(ItemUser(Items[j]))
    /\ \A j \in DOMAIN Items :
         Complete(Items[j]) =>
           \E l \in j..Len(Items) :
             /\ Complete(Items[l])
             /\ ItemUser(Items[l]) = ItemUser(Items[j])
             /\ \A h \in (l + 1)..Len(Items) :
                  ~(Complete(Items[h]) /\ ItemUser(Items[h]) = ItemUser(Items[j]))
             /\ MapGet(users, Str(ItemUser(Items[j]))) = Str(ItemPass(Items[l]))

\* a username was listed twice with different passwords
C16_Witness ==
  /\ authService
  /\ \E i, j \in DOMAIN Items :
       /\ i < j /\ Complete(Items[i]) /\ Complete(Items[j])
       /\ ItemUser(Items[i]) = ItemUser(Items[j])
       /\ ItemPass(Items[i]) # ItemPass(Items[j])

\* ----------------------------------------------- AuthService: tokens ----
\* 24 * 60 * 60 seconds
TokenLifetime == 86400

\* a token: what it decodes to (payload), what its signature was computed
\* over (signed) and with which key; form tells a JWT from the empty string
\* and from a text that is no JWT
Token(form, payload, signed, key) ==
  [form |-> form, payload |-> payload, signed |-> signed, key |-> key]

Garbage == Token("garbage", NoPayload, NoPayload, Null)

\* jwt.sign(payload, secret)
JwtSign(payload, secret) == Token("jwt", payload, payload, secret)

Thrown == [t |-> "throw", payload |-> NoPayload]
Returned(payload) == [t |-> "payload", payload |-> payload]
ReturnedNull == [t |-> "null", payload |-> NoPayload]

\* jwt.verify with the expiry compared by > : a token lives one second longer
JwtVerifyLate(token, secret, clock) ==
  IF token.form # "jwt" THEN Thrown
  ELSE IF token.key # secret \/ token.signed # token.payload THEN Thrown
  ELSE IF clock > token.payload.exp THEN Thrown
  ELSE Returned(token.payload)

\* jwt.verify(token, secret) at time clock: throws on a text that is no JWT,
\* on a signature that does not match, and from the second exp on
JwtVerify(token, secret, clock) ==
  IF token.form # "jwt" THEN Thrown
  ELSE IF token.key # secret \/ token.signed # token.payload THEN Thrown
  ELSE IF clock >= token.payload.exp THEN Thrown
  ELSE Returned(token.payload)

\* generateToken signing with a key of its own instead of this.jwtSecret
generateTokenOtherKey(secret, username, t1, t2) ==
  JwtSign([username |-> username, iat |-> t1, exp |-> t2 + TokenLifetime],
          Str(<<"o">>))

\* generateToken(username): Date.now() is read at second t1 for iat and at
\* second t2 for exp
generateToken(secret, username, t1, t2) ==
  JwtSign([username |-> username, iat |-> t1, exp |-> t2 + TokenLifetime], secret)

\* validateToken without the try/catch around jwt.verify
validateTokenNoCatch(secret, token, clock) ==
  IF token.form = "empty" THEN ReturnedNull
  ELSE JwtVerify(token, secret, clock)

\* validateToken(token) at time clock
validateToken(secret, token, clock) ==
  IF token.form = "empty" THEN ReturnedNull
  ELSE IF JwtVerify(token, secret, clock).t = "throw" THEN ReturnedNull
  ELSE JwtVerify(token, secret, clock)

\* the environments of a service that issues tokens
TokenConfigs ==
  {[NoEnv EXCEPT !.JWT_SECRET = Str(<<"s">>),
                 !.API_USERNAME = Str(U), !.API_PASSWORD = Str(P)],
   [NoEnv EXCEPT !.JWT_SECRET = Str(<<"k">>),
                 !.API_USERS = Str(<<"u", ":", "p", ",", "v", ":", "p">>)]}

TokenUsers == {Str(U), Str(<<"v">>)}

\* seconds that pass between two calls
Steps == {1, TokenLifetime - 1, TokenLifetime}

\* what a client may do to the token it holds: change the username or the
\* expiry of the payload, or sign the payload with a key of its own
Renamed(token) == [token EXCEPT !.payload.username = Str(<<"x">>)]
Extended(token) == [token EXCEPT !.payload.exp = @ + TokenLifetime]
Rekeyed(token) == [token EXCEPT !.key = Str(<<"o">>)]

\* the tokens a client may present
Presented ==
  {held, Renamed(held), Extended(held), Rekeyed(held), NoToken, Garbage}

InitToken ==
  /\ envCsvPath = TRUE
  /\ dataService = FALSE
  /\ data = <<>>
  /\ states = <<>>
  /\ live = <<>>
  /\ pc = [r \in Requests |-> "idle"]
  /\ query = [r \in Requests |-> Null]
  /\ loadErr = [r \in Requests |-> NoErr]
  /\ out = NoOut
  /\ env \in TokenConfigs
  /\ authService = FALSE
  /\ routeAuthService = FALSE
  /\ users = <<>>
  /\ jwtSecret = Null
  /\ now = 0
  /\ ticks = 0
  /\ held = NoToken

\* time passes
Tick(d) ==
  /\ ticks < MaxTicks
  /\ now' = now + d
  /\ ticks' = ticks + 1
  /\ out' = [kind |-> "tick"]
  /\ UNCHANGED <<env, authService, routeAuthService, users, jwtSecret, held>>
  /\ UNCHANGED dataVars

\* authService.generateToken(username); the second Date.now() of the call
\* falls in the same second as the first or in the next one, and the client
\* keeps the token or goes on with the one it has
Generate(username, t2, keep) ==
  /\ authService
  /\ t2 > now => ticks < MaxTicks
  /\ \E token \in {generateToken(jwtSecret, username, now, t2)} :
       /\ out' = [kind |-> "issued", username |-> username, token |-> token]
       /\ held' = IF keep THEN token ELSE held
  /\ now' = t2
  /\ ticks' = IF t2 > now THEN ticks + 1 ELSE ticks
  /\ UNCHANGED <<env, authService, routeAuthService, users, jwtSecret>>
  /\ UNCHANGED dataVars

\* authService.validateToken(token); fresh when the token is the one the
\* step before issued
ValidateToken(token) ==
  /\ authService
  /\ out' = [kind |-> "verified", token |-> token, at |-> now,
             fresh |-> (out.kind = "issued" /\ token = out.token),
             given |-> IF out.kind = "issued" THEN out.username ELSE Null,
             result |-> validateToken(jwtSecret, token, now)]
  /\ UNCHANGED authVars
  /\ UNCHANGED dataVars

NextToken ==
  \/ Construct
  \/ \E d \in Steps : Tick(d)
  \/ \E username \in TokenUsers, t2 \in {now, now + 1}, keep \in BOOLEAN :
       Generate(username, t2, keep)
  \/ \E token \in Presented : ValidateToken(token)

\* one AuthService issuing and validating tokens while time passes
SpecToken == InitToken /\ [][NextToken]_vars

\* C17: a token validated right after it was issued gives a payload with
\* the username it was issued for and exp - iat = 86400
C17_IssueThenValidate ==
  (out.kind = "verified" /\ out.fresh) =>
    /\ out.result.t = "payload"
    /\ out.result.payload.username = out.given
    /\ out.result.payload.exp - out.result.payload.iat = TokenLifetime

\* signed with the secret of the service over the payload it carries
WellSigned(token) ==
  token.form = "jwt" /\ token.key = jwtSecret /\ token.signed = token.payload

\* the service accepts the token now
Accepts(token) == validateToken(jwtSecret, token, now).t = "payload"

\* C18: a well-signed token is accepted at every time before exp and
\* rejected from exp on, a token past its exp is rejected whatever its
\* signature, and while a client holds a well-signed token no step makes it
\* accepted again once rejected or rejects it before its exp
C18_ValidityOverTime ==
  /\ [](out.kind = "verified" =>
          /\ WellSigned(out.token)
               => (out.result.t = "payload" <=> out.at < out.token.payload.exp)
          /\ (out.token.form = "jwt" /\ out.at >= out.token.payload.exp)
               => out.result.t = "null")
  /\ [][(held' = held /\ WellSigned(held)) =>
          /\ Accepts(held)' => Accepts(held)
          /\ (Accepts(held) /\ now' < held.payload.exp) => Accepts(held)']_vars

\* a well-signed token was refused in the very second of its exp
C18_Witness ==
  /\ out.kind = "verified" /\ WellSigned(out.token)
  /\ out.at = out.token.payload.exp /\ out.result.t = "null"

\* C19: validateToken does not throw; it returns null for the empty token,
\* a text that is no JWT, a token signed with another key or carrying a
\* payload other than the signed one, and a token past its exp; else it
\* returns the payload
C19_NullOrPayload ==
  out.kind = "verified" =>
    /\ out.result.t # "throw"
    /\ out.result.t = "null" <=>
         \/ out.token.form = "empty"
         \/ out.token.form = "garbage"
         \/ out.token.key # jwtSecret
         \/ out.token.signed # out.token.payload
         \/ out.at >= out.token.payload.exp
    /\ out.result.t = "payload" =>
         (out.result.payload = out.token.payload /\ out.result.payload # NoPayload)

\* a token with an altered payload was refused before its exp
C19_Witness ==
  /\ out.kind = "verified" /\ out.result.t = "null"
  /\ out.token.form = "jwt" /\ out.token.key = jwtSecret
  /\ out.token.signed # out.token.payload
  /\ out.at < out.token.payload.exp

\* ------------------------------------------------------ authMiddleware ----
Bearer == <<"B", "e", "a", "r", "e", "r">>
LowerBearer == <<"b", "e", "a", "r", "e", "r">>
Basic == <<"B", "a", "s", "i", "c">>

\* token texts on the wire: g is a token for u signed with the secret s at
\* second 0, f the same payload signed with another key, j no JWT at all
GoodToken ==
  JwtSign([username |-> Str(U), iat |-> 0, exp |-> TokenLifetime], Str(<<"s">>))

ForgedToken ==
  JwtSign([username |-> Str(U), iat |-> 0, exp |-> TokenLifetime], Str(<<"o">>))

\* the token a text of the header stands for; h is the text of the token
\* a client keeps from a login
Decode(text) ==
  IF text = <<"g">> THEN GoodToken
  ELSE IF text = <<"f">> THEN ForgedToken
  ELSE IF text = <<"h">> /\ held # NoToken THEN held
  ELSE Garbage

\* words of Authorization headers, joined by single spaces: well-formed
\* ones, the empty header, other schemes, no scheme, no token, a double
\* space, extra parts, a space at either end, no space
HeaderWords ==
  {<<Bearer, <<"g">> >>, <<Bearer, <<"f">> >>, <<Bearer, <<"j">> >>,
   <<>>,
   <<LowerBearer, <<"g">> >>, <<Basic, <<"g">> >>,
   << <<"g">> >>,
   <<Bearer>>, <<Bearer, <<>> >>,
   <<Bearer, <<>>, <<"g">> >>,
   <<Bearer, <<"g">>, <<"j">> >>, <<Bearer, <<"g">>, <<"g">> >>,
   <<Bearer, <<"g">>, <<>> >>, << <<>>, Bearer, <<"g">> >>,
   <<Bearer \o <<"g">> >>}

\* req.headers.authorization
Headers == {Null} \cup {Str(Join(w, " ")) : w \in HeaderWords}

\* the environments of the gate: a working one with the secret of the good
\* token, one with another secret, one without secret
GateConfigs ==
  {[NoEnv EXCEPT !.JWT_SECRET = Str(<<"s">>),
                 !.API_USERNAME = Str(U), !.API_PASSWORD = Str(P)],
   [NoEnv EXCEPT !.JWT_SECRET = Str(<<"k">>),
                 !.API_USERNAME = Str(U), !.API_PASSWORD = Str(P)],
   [NoEnv EXCEPT !.API_USERNAME = Str(U), !.API_PASSWORD = Str(P)]}

NoBearer == [ok |-> FALSE, token |-> <<>>]

\* the header check without the test of the number of parts
BearerTokenLoose(authHeader) ==
  IF Falsy(authHeader) THEN NoBearer
  ELSE IF \/ Len(Split(authHeader.s, " ")) < 2
          \/ Split(authHeader.s, " ")[1] # Bearer
          \/ Split(authHeader.s, " ")[2] = <<>>
       THEN NoBearer
       ELSE [ok |-> TRUE, token |-> Split(authHeader.s, " ")[2]]

\* the token of the header, if the header is 'Bearer <token>'
BearerToken(authHeader) ==
  IF Falsy(authHeader) THEN NoBearer
  ELSE IF \/ Len(Split(authHeader.s, " ")) # 2
          \/ Split(authHeader.s, " ")[1] # Bearer
          \/ Split(authHeader.s, " ")[2] = <<>>
       THEN NoBearer
       ELSE [ok |-> TRUE, token |-> Split(authHeader.s, " ")[2]]

ErrTokenRequired == "Access token required"
ErrInvalidToken == "Invalid token"

NotValidated == [t |-> "none", payload |-> NoPayload]

\* getAuthService(): the service there is, or a new one
getAuthService(made, us, secret, e) ==
  IF made THEN [error |-> ErrNone, users |-> us, jwtSecret |-> secret]
  ELSE AuthServiceNew(e)

\* what authMiddleware does with a request: the response it sends (status 0:
\* none), whether it calls next, req.user, whether and with which result
\* validateToken was called, and the service getAuthService leaves
GateAnswer(status, error, next, user, result, svc) ==
  [status |-> status, error |-> error, next |-> next,
   userSet |-> next, user |-> user,
   validated |-> result.t # "none", result |-> result, svc |-> svc]

\* authMiddleware going on although validateToken returned null
GateValidatePassesNull(token, svc, clock) ==
  IF svc.error # ErrNone
  THEN GateAnswer(401, ErrInvalidToken, FALSE, NoPayload, NotValidated, svc)
  ELSE GateAnswer(0, "none", TRUE,
                  validateToken(svc.jwtSecret, Decode(token), clock).payload,
                  validateToken(svc.jwtSecret, Decode(token), clock), svc)

\* the rest of authMiddleware once the service is there or failed to be made
GateValidate(token, svc, clock) ==
  IF svc.error # ErrNone
  THEN GateAnswer(401, ErrInvalidToken, FALSE, NoPayload, NotValidated, svc)
  ELSE IF validateToken(svc.jwtSecret, Decode(token), clock).t = "null"
  THEN GateAnswer(401, ErrInvalidToken, FALSE, NoPayload, ReturnedNull, svc)
  ELSE GateAnswer(0, "none", TRUE,
                  validateToken(svc.jwtSecret, Decode(token), clock).payload,
                  validateToken(svc.jwtSecret, Decode(token), clock), svc)

authMiddleware(authHeader, made, us, secret, e, clock) ==
  IF ~BearerToken(authHeader).ok
  THEN GateAnswer(401, ErrTokenRequired, FALSE, NoPayload, NotValidated,
                  [error |-> "unused", users |-> us, jwtSecret |-> secret])
  ELSE GateValidate(BearerToken(authHeader).token,
                    getAuthService(made, us, secret, e), clock)

InitGate ==
  /\ envCsvPath = TRUE
  /\ dataService = FALSE
  /\ data = <<>>
  /\ states = <<>>
  /\ live = <<>>
  /\ pc = [r \in Requests |-> "idle"]
  /\ query = [r \in Requests |-> Null]
  /\ loadErr = [r \in Requests |-> NoErr]
  /\ out = NoOut
  /\ env \in GateConfigs
  /\ authService = FALSE
  /\ routeAuthService = FALSE
  /\ users = <<>>
  /\ jwtSecret = Null
  /\ now = 0
  /\ ticks = 0
  /\ held = NoToken

\* a request with this Authorization header passes through authMiddleware
Gate(authHeader) ==
  /\ \E a \in {authMiddleware(authHeader, authService, users, jwtSecret, env, now)} :
       /\ out' = [kind |-> "gate", header |-> authHeader, at |-> now,
                  status |-> a.status, error |-> a.error, next |-> a.next,
                  userSet |-> a.userSet, user |-> a.user,
                  validated |-> a.validated, result |-> a.result]
       /\ authService' = (authService \/ a.svc.error = ErrNone)
       /\ users' = IF a.svc.error = ErrNone THEN a.svc.users ELSE users
       /\ jwtSecret' = IF a.svc.error = ErrNone THEN a.svc.jwtSecret ELSE jwtSecret
  /\ UNCHANGED <<env, routeAuthService, now, ticks, held>>
  /\ UNCHANGED dataVars

NextGate ==
  \/ \E d \in Steps : Tick(d)
  \/ \E authHeader \in Headers : Gate(authHeader)

\* requests passing through the gate while time passes
SpecGate == InitGate /\ [][NextGate]_vars

\* exactly 'Bearer <token>': the scheme, one space, and a token without space
WellFormedBearer(h) ==
  /\ h.t = "str"
  /\ Len(h.s) > Len(Bearer) + 1
  /\ SubSeq(h.s, 1, Len(Bearer)) = Bearer
  /\ h.s[Len(Bearer) + 1] = " "
  /\ \A i \in (Len(Bearer) + 2)..Len(h.s) : h.s[i] # " "

\* the token text of a well-formed header
TokenText(h) == SubSeq(h.s, Len(Bearer) + 2, Len(h.s))

\* C20: a request without a header that is exactly 'Bearer <token>' is
\* answered 401 'Access token required' and validateToken is not called; a
\* request with such a header whose token does not validate is answered 401
\* 'Invalid token'
C20_RequiredOrInvalid ==
  out.kind = "gate" =>
    IF ~WellFormedBearer(out.header)
    THEN /\ out.status = 401 /\ out.error = ErrTokenRequired
         /\ ~out.validated /\ ~out.next
    ELSE /\ out.error # ErrTokenRequired
         /\ (~authService
               \/ validateToken(jwtSecret, Decode(TokenText(out.header)), out.at).t = "null")
              => (out.status = 401 /\ out.error = ErrInvalidToken /\ ~out.next)

\* a header with an extra part around a token that would validate was refused
C20_Witness ==
  /\ out.kind = "gate" /\ out.error = ErrTokenRequired
  /\ out.header.t = "str" /\ Len(out.header.s) > Len(Bearer) + 2
  /\ SubSeq(out.header.s, 1, Len(Bearer) + 2) = Bearer \o <<" ", "g">>
  /\ env.JWT_SECRET = Str(<<"s">>) /\ out.at < TokenLifetime

\* C21: the gate calls next exactly when validateToken returned a payload
\* for the bearer token, and req.user is that payload exactly then; when the
\* token is invalid or the validation throws, next is not called, req.user
\* stays unset and the response is 401
C21_NextIffPayload ==
  out.kind = "gate" =>
    /\ out.next <=> (out.validated /\ out.result.t = "payload")
    /\ out.next =>
         /\ WellFormedBearer(out.header)
         /\ out.result = validateToken(jwtSecret, Decode(TokenText(out.header)), out.at)
         /\ out.userSet /\ out.user = out.result.payload /\ out.user # NoPayload
         /\ out.status = 0
    /\ ~out.next =>
         (~out.userSet /\ out.user = NoPayload /\ out.status = 401)

\* a request with a valid token was passed on as user u
C21_Witness ==
  /\ out.kind = "gate" /\ out.next
  /\ out.user.username = Str(U) /\ out.at > 0

\* --------------------------------------------------------- POST /login ----
ErrCredsRequired == "Username and password are required"
ErrInvalidCredentials == "Invalid credentials"
ErrInternal == "Internal server error"

\* the input validation without the two trim tests
LoginInputNoTrim(username, password) ==
  IF Falsy(username) \/ Falsy(password) THEN "missing" ELSE "present"

\* !username || !password || username.trim() === '' || password.trim() === '',
\* evaluated from left to right: "missing" when it is true, "present" when
\* it is false, "throw" when trim is called on a value that is no string
LoginInput(username, password) ==
  IF Falsy(username) \/ Falsy(password) THEN "missing"
  ELSE IF username.t # "str" THEN "throw"
  ELSE IF Trim(username.s) = <<>> THEN "missing"
  ELSE IF password.t # "str" THEN "throw"
  ELSE IF Trim(password.s) = <<>> THEN "missing"
  ELSE "present"

\* a service the handler did not ask for
ServiceUnused(us, secret) == [error |-> "unused", users |-> us, jwtSecret |-> secret]

\* what the login handler does with a request: the response it sends, the
\* token in it, whether validateCredentials and generateToken were called,
\* and the service getAuthService leaves
LoginAnswer(status, error, token, checked, svc) ==
  [status |-> status, error |-> error, token |-> token,
   expiresIn |-> IF status = 200 THEN TokenLifetime ELSE 0,
   generated |-> status = 200, checked |-> checked, svc |-> svc]

\* the login handler without its catch: a constructor that throws escapes
LoginValidateNoCatch(username, password, svc, t1, t2) ==
  IF svc.error # ErrNone
  THEN LoginAnswer(0, "escaped", NoToken, FALSE, svc)
  ELSE IF ~validateCredentials(svc.users, username, password)
  THEN LoginAnswer(401, ErrInvalidCredentials, NoToken, TRUE, svc)
  ELSE LoginAnswer(200, "none",
                   generateToken(svc.jwtSecret, username, t1, t2), TRUE, svc)

\* the login handler once the service is there or failed to be made
LoginValidate(username, password, svc, t1, t2) ==
  IF svc.error # ErrNone
  THEN LoginAnswer(500, ErrInternal, NoToken, FALSE, svc)
  ELSE IF ~validateCredentials(svc.users, username, password)
  THEN LoginAnswer(401, ErrInvalidCredentials, NoToken, TRUE, svc)
  ELSE LoginAnswer(200, "none",
                   generateToken(svc.jwtSecret, username, t1, t2), TRUE, svc)

\* the handler of POST /login; its generateToken reads the clock at t1, t2
login(username, password, made, us, secret, e, t1, t2) ==
  IF LoginInput(username, password) = "missing"
  THEN LoginAnswer(400, ErrCredsRequired, NoToken, FALSE, ServiceUnused(us, secret))
  ELSE IF LoginInput(username, password) = "throw"
  THEN LoginAnswer(500, ErrInternal, NoToken, FALSE, ServiceUnused(us, secret))
  ELSE LoginValidate(username, password,
                     getAuthService(made, us, secret, e), t1, t2)

\* a POST /login with this body; the client keeps the token or not
Login(username, password, t2, keep) ==
  /\ t2 > now => ticks < MaxTicks
  /\ \E a \in {login(username, password, routeAuthService, users, jwtSecret,
                     env, now, t2)} :
       /\ out' = [kind |-> "login", username |-> username, password |-> password,
                  at |-> now, status |-> a.status, error |-> a.error,
                  token |-> a.token, expiresIn |-> a.expiresIn,
                  generated |-> a.generated, checked |-> a.checked]
       /\ routeAuthService' = (routeAuthService \/ a.svc.error = ErrNone)
       /\ users' = IF a.svc.error = ErrNone THEN a.svc.users ELSE users
       /\ jwtSecret' = IF a.svc.error = ErrNone THEN a.svc.jwtSecret ELSE jwtSecret
       /\ held' = IF a.generated /\ keep THEN a.token ELSE held
       /\ now' = IF a.generated THEN t2 ELSE now
       /\ ticks' = IF a.generated /\ t2 > now THEN ticks + 1 ELSE ticks
  /\ UNCHANGED <<env, authService>>
  /\ UNCHANGED dataVars

\* the environments of the login route: one legacy user, two listed users,
\* no secret
LoginConfigs ==
  {[NoEnv EXCEPT !.JWT_SECRET = Str(<<"s">>),
                 !.API_USERNAME = Str(U), !.API_PASSWORD = Str(P)],
   [NoEnv EXCEPT !.JWT_SECRET = Str(<<"s">>),
                 !.API_USERS = Str(<<"u", ":", "p", ",", "v", ":", "q">>)],
   [NoEnv EXCEPT !.API_USERNAME = Str(U), !.API_PASSWORD = Str(P)]}

\* req.body.username and req.body.password: absent, text, or a number
LoginNames ==
  {Null, Str(<<>>), Str(<<" ">>), Str(U), Str(<<"v">>), Str(<<" ", "u">>),
   Num(1), Num(0)}

LoginPasswords == {Null, Str(<<>>), Str(<<" ">>), Str(P), Str(<<"q">>), Num(1)}

InitLogin ==
  /\ envCsvPath = TRUE
  /\ dataService = FALSE
  /\ data = <<>>
  /\ states = <<>>
  /\ live = <<>>
  /\ pc = [r \in Requests |-> "idle"]
  /\ query = [r \in Requests |-> Null]
  /\ loadErr = [r \in Requests |-> NoErr]
  /\ out = NoOut
  /\ env \in LoginConfigs
  /\ authService = FALSE
  /\ routeAuthService = FALSE
  /\ users = <<>>
  /\ jwtSecret = Null
  /\ now = 0
  /\ ticks = 0
  /\ held = NoToken

NextLogin ==
  \E username \in LoginNames, password \in LoginPasswords,
     t2 \in {now, now + 1}, keep \in BOOLEAN :
    Login(username, password, t2, keep)

\* login requests to one process
SpecLogin == InitLogin /\ [][NextLogin]_vars

\* absent, empty or white space only
Blank(v) == v.t = "null" \/ (v.t = "str" /\ \A i \in DOMAIN v.s : v.s[i] = " ")

\* the pair is one of the configured credential set
Configured(username, password) ==
  \E i \in DOMAIN loadUsersFromEnv(env) :
    loadUsersFromEnv(env)[i] = [k |-> username, v |-> password]

\* C22: login generates a token only after validateCredentials returned true
\* for the pair; a body without a non-blank username or password gets 400
\* 'Username and password are required', an unknown user or a wrong
\* password gets 401 'Invalid credentials', neither with a token; a
\* successful login returns the token and expiresIn = 86400
C22_LoginOutcomes ==
  out.kind = "login" =>
    /\ out.generated =>
         (out.checked /\ Configured(out.username, out.password) /\ out.status = 200)
    /\ out.status # 200 => (out.token = NoToken /\ ~out.generated)
    /\ (out.username.t \in {"str", "null"} /\ out.password.t \in {"str", "null"}) =>
         IF Blank(out.username) \/ Blank(out.password)
         THEN out.status = 400 /\ out.error = ErrCredsRequired /\ ~out.checked
         ELSE IF Falsy(env.JWT_SECRET) THEN ~out.generated
         ELSE IF ~Configured(out.username, out.password)
         THEN out.status = 401 /\ out.error = ErrInvalidCredentials
         ELSE /\ out.status = 200 /\ out.expiresIn = TokenLifetime
              /\ out.token.payload.username = out.username
              /\ validateToken(jwtSecret, out.token, now).t = "payload"

\* the second of two listed users logged in
C22_Witness ==
  /\ out.kind = "login" /\ out.status = 200
  /\ out.username = Str(<<"v">>) /\ Len(users) = 2

\* C23: a price request without a region (absent, empty, white space only,
\* or no single string) is answered 400 'State query parameter is required'
\* whatever the state of the dataset, and changes nothing of the snapshot
C23_RegionMissing ==
  [][(out'.kind = "response" /\ (Blank(out'.state) \/ out'.state.t # "str"))
       => /\ out'.status = 400
          /\ out'.error = "State query parameter is required"
          /\ data' = data /\ states' = states /\ live' = live
          /\ dataService' = dataService /\ pc' = pc]_vars

\* a white-space region was refused while records were loaded
C23_Witness ==
  /\ out.kind = "response" /\ out.status = 400
  /\ out.state = Str(<<" ">>) /\ Len(data) > 0

\* C24: a request whose load succeeded is answered 404 exactly when no loaded
\* record has its region, and else 200 with the region, the mean price and
\* the number of the records of the region, a mean price of 0 included
C24_NotFoundOrMean ==
  [][\A r \in Requests :
       (pc[r] = "loaded" /\ pc'[r] = "idle" /\ loadErr[r].error = ErrNone) =>
         /\ out'.kind = "response" /\ out'.state = query[r]
         /\ IF Matching(data, query[r]) = {}
            THEN out'.status = 404
            ELSE /\ out'.status = 200
                 /\ out'.meanPrice = MeanOf(data, query[r])
                 /\ out'.recordCount = Cardinality(Matching(data, query[r]))]_vars

\* a region whose mean price is 0 was answered 200
C24_Witness ==
  /\ out.kind = "response" /\ out.status = 200
  /\ out.meanPrice = Num(0) /\ out.recordCount > 0

\* C27: once records are loaded, no price request calls loadData again
C27_LoadOnlyOnce ==
  [][Len(data) > 0 =>
       \A r \in Requests : ~(pc[r] = "idle" /\ pc'[r] = "loading")]_vars

\* the entry is the last one of its username with a username and some text
\* after the first colon
LastEntryOf(j) ==
  /\ ItemUser(Items[j]) # <<>> /\ ItemRest(Items[j]) # <<>>
  /\ \A h \in (j + 1)..Len(Items) :
       ~(ItemUser(Items[h]) = ItemUser(Items[j]) /\ ItemRest(Items[h]) # <<>>)

\* C30: the password stored for a listed username is the whole text after
\* the first colon of its entry, and validateCredentials is true for that
\* text and for no other password, a prefix of it included
C30_PasswordAfterFirstColon ==
  (authService /\ ~Falsy(env.API_USERS)) =>
    \A j \in DOMAIN Items :
      LastEntryOf(j) =>
        /\ MapGet(users, Str(ItemUser(Items[j]))) = Str(ItemRest(Items[j]))
        /\ (out.kind = "validated" /\ out.username = Str(ItemUser(Items[j])))
             => (out.result <=> out.password = Str(ItemRest(Items[j])))

\* ------------------------------------------------- login, then the gate ----
\* the header of a client that presents the token it keeps
HeldHeader == Str(Bearer \o <<" ", "h">>)

FlowHeaders == {HeldHeader, Null, Str(Bearer \o <<" ", "j">>)}

\* login bodies: two users and a wrong password
FlowLogins ==
  {<<Str(U), Str(P)>>, <<Str(<<"v">>), Str(P)>>, <<Str(U), Str(<<"q">>)>>}

InitFlow ==
  /\ envCsvPath = TRUE
  /\ dataService = FALSE
  /\ data = <<>>
  /\ states = <<>>
  /\ live = <<>>
  /\ pc = [r \in Requests |-> "idle"]
  /\ query = [r \in Requests |-> Null]
  /\ loadErr = [r \in Requests |-> NoErr]
  /\ out = NoOut
  /\ env \in TokenConfigs
  /\ authService = FALSE
  /\ routeAuthService = FALSE
  /\ users = <<>>
  /\ jwtSecret = Null
  /\ now = 0
  /\ ticks = 0
  /\ held = NoToken

NextFlow ==
  \/ \E body \in FlowLogins, t2 \in {now, now + 1}, keep \in BOOLEAN :
       Login(body[1], body[2], t2, keep)
  \/ \E d \in Steps : Tick(d)
  \/ \E authHeader \in FlowHeaders : Gate(authHeader)

\* clients that log in and then pass the gate with their token while time
\* passes
SpecFlow == InitFlow /\ [][NextFlow]_vars

\* C26: the token of a successful login is accepted by the gate on every
\* request before its exp, with req.user the user who logged in, and
\* refused on every request from its exp on
C26_LoginThenGate ==
  (out.kind = "gate" /\ out.header = HeldHeader /\ held # NoToken) =>
    /\ out.next <=> out.at < held.payload.exp
    /\ out.next =>
         /\ out.user = held.payload
         /\ \E i \in DOMAIN users : users[i].k = out.user.username
    /\ ~out.next => (out.status = 401 /\ out.error = ErrInvalidToken)

\* a token of a login was accepted a day less a second later
C26_Witness ==
  /\ out.kind = "gate" /\ out.header = HeldHeader /\ out.next
  /\ out.at - held.payload.iat = TokenLifetime - 1

\* ------------------------------------------------------- GET /api/price ----
\* what the gate did, as the request sees it
GateOut(a) ==
  [status |-> a.status, error |-> a.error, next |-> a.next,
   userSet |-> a.userSet, user |-> a.user,
   validated |-> a.validated, result |-> a.result]

\* the handler of GET / up to its first await: the response it sends at
\* once, or none when it has called loadData, and the DataService it leaves
HandlerStart(q, made, path) ==
  IF StateParamMissing(q)
  THEN [response |-> Response(q, 400, "State query parameter is required", Null, 0),
        load |-> FALSE, dataService |-> made]
  ELSE IF ~made /\ ~path
  THEN [response |-> Response(q, 500, ErrInternal, Null, 0),
        load |-> FALSE, dataService |-> made]
  ELSE [response |-> NoOut, load |-> TRUE, dataService |-> TRUE]

\* the router with the region check of the handler ahead of the gate
ProtectedAnswerHandlerFirst(gate, q, made, path) ==
  IF StateParamMissing(q) \/ gate.next
  THEN HandlerStart(q, made, path)
  ELSE [response |-> NoOut, load |-> FALSE, dataService |-> made]

\* priceRouter.use(authMiddleware): the handler runs when the gate called
\* next, and not otherwise
ProtectedAnswer(gate, q, made, path) ==
  IF gate.next
  THEN HandlerStart(q, made, path)
  ELSE [response |-> NoOut, load |-> FALSE, dataService |-> made]

\* a GET /api/price with this header and this region parameter, through the
\* gate and the handler up to its first await
ApiRequest(r, authHeader, q) ==
  /\ pc[r] = "idle"
  /\ \E a \in {authMiddleware(authHeader, authService, users, jwtSecret, env, now)} :
       /\ authService' = (authService \/ a.svc.error = ErrNone)
       /\ users' = IF a.svc.error = ErrNone THEN a.svc.users ELSE users
       /\ jwtSecret' = IF a.svc.error = ErrNone THEN a.svc.jwtSecret ELSE jwtSecret
       /\ \E h \in {ProtectedAnswer(a, q, dataService, envCsvPath)} :
            /\ out' = [kind |-> "request", header |-> authHeader, state |-> q,
                       at |-> now, gate |-> GateOut(a), response |-> h.response]
            /\ dataService' = h.dataService
            /\ pc' = IF h.load THEN [pc EXCEPT ![r] = "loading"] ELSE pc
            /\ query' = IF h.load THEN [query EXCEPT ![r] = q] ELSE query
  /\ UNCHANGED <<envCsvPath, data, states, live, loadErr>>
  /\ UNCHANGED <<env, routeAuthService, now, ticks, held>>

\* the environments a process is started with: a working one, one without
\* secret, one without users
ApiConfigs ==
  {[NoEnv EXCEPT !.JWT_SECRET = Str(<<"s">>),
                 !.API_USERNAME = Str(U), !.API_PASSWORD = Str(P)],
   [NoEnv EXCEPT !.API_USERNAME = Str(U), !.API_PASSWORD = Str(P)],
   [NoEnv EXCEPT !.JWT_SECRET = Str(<<"s">>)]}

ApiHeaders == {Null, Str(Bearer \o <<" ", "g">>), Str(Bearer \o <<" ", "j">>), HeldHeader}

ApiQueries == {Null, Str(<<" ">>), Str(N)}

\* login bodies: a user, no username, a number for a username
ApiLogins == {<<Str(U), Str(P)>>, <<Null, Str(P)>>, <<Num(1), Str(P)>>}

ApiFiles ==
  {[code |-> "ok", rows |-> << <<N, <<"1">>, T>> >>], [code |-> "ENOENT", rows |-> <<>>]}

\* the process after its bootstrap: it listens, and no service has been
\* constructed
InitApi ==
  /\ envCsvPath \in BOOLEAN
  /\ dataService = FALSE
  /\ data = <<>>
  /\ states = <<>>
  /\ live = <<>>
  /\ pc = [r \in Requests |-> "idle"]
  /\ query = [r \in Requests |-> Null]
  /\ loadErr = [r \in Requests |-> NoErr]
  /\ out = NoOut
  /\ env \in ApiConfigs
  /\ authService = FALSE
  /\ routeAuthService = FALSE
  /\ users = <<>>
  /\ jwtSecret = Null
  /\ now = 0
  /\ ticks = 0
  /\ held = NoToken

NextApi ==
  \/ \E body \in ApiLogins : Login(body[1], body[2], now, TRUE)
  \/ \E r \in Requests, authHeader \in ApiHeaders, q \in ApiQueries :
       ApiRequest(r, authHeader, q)
  \/ \E r \in Requests, file \in ApiFiles : LoadSettle(r, file)
  \/ \E r \in Requests : HandlerResume(r)

\* readFile settles and a handler whose await settled goes on
FairApi ==
  \A r \in Requests :
    /\ WF_vars(\E file \in ApiFiles : LoadSettle(r, file))
    /\ WF_vars(HandlerResume(r))

\* the running process: logins and protected price requests within a second
SpecApi == InitApi /\ [][NextApi]_vars /\ FairApi

\* a secret and at least one user are configured
ConfigOk == ~Falsy(env.JWT_SECRET) /\ Len(loadUsersFromEnv(env)) > 0

\* C25: a process whose configuration lacks the secret or the users answers
\* no login and no price request
C25_NoStartWithoutConfig ==
  out.kind \in {"login", "request", "response"} => ConfigOk

\* C28: a request the gate refuses gets the 401 of the gate, also when it has
\* no region, and leaves the DataService untouched: none is constructed and
\* no load starts; the handler runs only after the gate called next; a
\* request without region starts no load; and a 200 or 404 is sent only by a
\* handler whose load has settled
C28_GateThenHandler ==
  [][/\ (out'.kind = "request" /\ ~out'.gate.next) =>
          /\ out'.gate.status = 401 /\ out'.response = NoOut
          /\ UNCHANGED dataVars
     /\ (out'.kind = "request" /\ out'.response # NoOut) =>
          /\ out'.gate.next /\ out'.gate.status = 0
          /\ WellFormedBearer(out'.header)
          /\ validateToken(jwtSecret', Decode(TokenText(out'.header)), now).t = "payload"
     /\ (out'.kind = "request" /\ (Blank(out'.state) \/ out'.state.t # "str")) =>
          (pc' = pc /\ dataService' = dataService /\ data' = data)
     /\ \A r \in Requests :
          (pc[r] = "idle" /\ pc'[r] = "loading") =>
            (out'.kind = "request" /\ out'.gate.next /\ out'.response = NoOut)
     /\ (out'.kind = "response" /\ out'.status \in {200, 404}) =>
          \E r \in Requests :
            pc[r] = "loaded" /\ pc'[r] = "idle" /\ loadErr[r].error = ErrNone]_vars

\* a request with neither a token nor a region got the 401 of the gate
C28_Witness ==
  /\ out.kind = "request" /\ out.header = Null /\ out.state = Null
  /\ out.gate.status = 401 /\ out.response = NoOut /\ ~dataService

\* C29: the gate sends one 401 or calls next, never both and never neither;
\* a login gets exactly one response; a price request the gate passed on
\* gets its one response at once or, after its load, from the handler that
\* goes on, failures of construction, validation and load included; and a
\* request in progress comes to its end
C29_OneOutcome ==
  /\ [](out.kind = "request" =>
          /\ (out.gate.status = 401) # out.gate.next
          /\ out.gate.status \in {0, 401}
          /\ out.gate.next => out.gate.status = 0
          /\ out.response # NoOut => out.response.status \in {400, 500})
  /\ [](out.kind = "login" => out.status \in {200, 400, 401, 500})
  /\ [](out.kind = "response" => out.status \in {200, 404, 500})
  /\ [][/\ (out'.kind = "request" /\ out'.gate.next) =>
             ((out'.response # NoOut)
                # (\E r \in Requests : pc[r] = "idle" /\ pc'[r] = "loading"))
        /\ \A r \in Requests :
             /\ (pc[r] = "loaded" /\ pc'[r] # "loaded") =>
                  (pc'[r] = "idle" /\ out'.kind = "response")
             /\ (pc[r] = "loading" /\ pc'[r] # "loading") =>
                  (pc'[r] = "loaded" /\ out' = NoOut)
        /\ out'.kind = "response" =>
             \E r \in Requests : pc[r] = "loaded" /\ pc'[r] = "idle"]_vars
  /\ \A r \in Requests : (pc[r] # "idle") ~> (pc[r] = "idle")

\* a login was answered 500 because the AuthService could not be constructed
C29_Witness ==
  /\ out.kind = "login" /\ out.status = 500
  /\ out.username = Str(U) /\ ~routeAuthService

====
